---------------------------- MODULE Spec2Model ----------------------------
(***************************************************************************)
(* Geo-YOLO-ToolKit: the geo <-> pixel <-> normalized-annotation           *)
(* conversion (tif_shp_to_yolo_png_converter.py, yolo2shp.py), the         *)
(* percentile normalisation of raster bands (tif2png.py,                   *)
(* tif_to_png_squares.py, tif_shp_to_yolo_png_converter.py) and the batch  *)
(* loops of the scripts.                                                   *)
(*                                                                         *)
(* Arithmetic is exact: a Python float is modelled by a rational <<n, d>>  *)
(* in lowest terms with d > 0, so every equality below is an equality of   *)
(* real numbers; binary rounding is outside the model.                     *)
(***************************************************************************)
EXTENDS Integers, Sequences, FiniteSets, TLC

VARIABLES
    prog,      \* which of the scripts this run is
    pc,        \* position of the modelled run
    tif,       \* the raster opened by rasterio: [transform, width, height]
    shp,       \* rows of the input shapefile: the bounds of each geometry
    pxBoxes,   \* what convert_geo_to_pixel_coords returned for each row
    txt,       \* lines of the YOLO text file: <<class_id, xc, yc, w, h>>
    origin,    \* who wrote txt: "shp_to_yolo" or "detector"
    outShp,    \* rows of the GeoDataFrame built by detections_to_shp
    bands,        \* src.read(1..3): three bands of NPix samples each
    masking,      \* whether the variant run masks nodata samples
    scaled_bands, \* the list convert_tif_to_png appends to
    png,          \* the image saved to png_path, channel by channel
    result,       \* how convert_tif_to_png ended
    script,    \* the script whose batch loop runs
    units,     \* the units of the batch, in loop order: what each one is like
    idx,       \* how many units the loop has taken
    written,   \* the output files written, in order: <<unit index, kind>>
    reported,  \* the units whose problem was printed
    status,    \* "running", "finished" or "aborted" (an uncaught exception)
    raster_crs,   \* src.crs of the raster raster_clipper.main clips
    squares_shp,  \* the clip polygons as read: [crs, rows]
    bbox_shp,     \* the companion bounding boxes as read: [crs, rows]
    squares_gdf,  \* squares_gdf after reprojection: rows [fid, geometry]
    bbox_gdf,     \* bbox_gdf after reprojection: rows [fid, geometry]
    shp_files,    \* the square_{index}.shp written: <<index, rows>>, in order
    image,        \* the PNG opened by split_png_to_squares: [width, height]
    square_size,  \* the side of a tile
    tile_y,       \* the y of the loop over range(num_rows)
    tile_x,       \* the x of the loop over range(num_cols)
    squares       \* the tiles saved, in order: [name, box]

codecVars == <<tif, shp, pxBoxes, txt, origin, outShp>>

normVars == <<bands, masking, scaled_bands, png, result>>

clipVars == <<raster_crs, squares_shp, bbox_shp, squares_gdf, bbox_gdf, shp_files>>

batchVars == <<script, units, idx, written, reported, status, clipVars>>

tileVars == <<image, square_size, tile_y, tile_x, squares>>

vars == <<prog, pc, tif, shp, pxBoxes, txt, origin, outShp,
          bands, masking, scaled_bands, png, result,
          script, units, idx, written, reported, status,
          raster_crs, squares_shp, bbox_shp, squares_gdf, bbox_gdf, shp_files,
          image, square_size, tile_y, tile_x, squares>>

---------------------------------------------------------------------------
(* Bounds of the model *)

MaxFeatures == 2
MaxRecords == 2
NPix == 4
MaxUnits == 3
MaxBoxes == 2
MaxSide == 5
MaxSquare == 3

---------------------------------------------------------------------------
(* Exact arithmetic standing for Python's float arithmetic *)

Abs(x) == IF x < 0 THEN -x ELSE x

RECURSIVE Gcd(_, _)
Gcd(m, n) == IF n = 0 THEN m ELSE Gcd(n, m % n)

\* n/d in lowest terms with a positive denominator (d # 0)
Rat(n, d) ==
    LET s == IF d < 0 THEN -1 ELSE 1
        g == Gcd(Abs(n), Abs(d))
    IN  <<(s * n) \div g, (s * d) \div g>>

I(n) == <<n, 1>>

RAdd(p, q) == Rat(p[1] * q[2] + q[1] * p[2], p[2] * q[2])
RSub(p, q) == Rat(p[1] * q[2] - q[1] * p[2], p[2] * q[2])
RMul(p, q) == Rat(p[1] * q[1], p[2] * q[2])
RDiv(p, q) == Rat(p[1] * q[2], p[2] * q[1])
RLe(p, q)  == p[1] * q[2] <= q[1] * p[2]
RLt(p, q)  == p[1] * q[2] < q[1] * p[2]
RMin(p, q) == IF RLe(p, q) THEN p ELSE q
RMax(p, q) == IF RLe(p, q) THEN q ELSE p

RMin4(p, q, r, s) == RMin(RMin(p, q), RMin(r, s))
RMax4(p, q, r, s) == RMax(RMax(p, q), RMax(r, s))

---------------------------------------------------------------------------
(* rasterio's Affine: transform * (col, row) and ~transform * (x, y) *)

Det(T) == T.a * T.e - T.b * T.d

\* transform * (col, row): x = a*col + b*row + c, y = d*col + e*row + f
AffineForward(T, p) ==
    << RAdd(RAdd(RMul(I(T.a), p[1]), RMul(I(T.b), p[2])), I(T.c)),
       RAdd(RAdd(RMul(I(T.d), p[1]), RMul(I(T.e), p[2])), I(T.f)) >>

\* a faulty inverse, for comparison: the translation (c, f) is not removed
AffineInverseNoOffset(T, p) ==
    << RDiv(RSub(RMul(I(T.e), p[1]), RMul(I(T.b), p[2])), I(Det(T))),
       RDiv(RSub(RMul(I(T.a), p[2]), RMul(I(T.d), p[1])), I(Det(T))) >>

\* ~transform * (x, y)
AffineInverse(T, p) ==
    LET dx == RSub(p[1], I(T.c))
        dy == RSub(p[2], I(T.f))
    IN  << RDiv(RSub(RMul(I(T.e), dx), RMul(I(T.b), dy)), I(Det(T))),
           RDiv(RSub(RMul(I(T.a), dy), RMul(I(T.d), dx)), I(Det(T))) >>

---------------------------------------------------------------------------
(* tif_shp_to_yolo_png_converter.py: shapefile rows -> YOLO lines *)

\* geo_coords = (minx, miny, maxx, maxy); two corners are mapped and the
\* result is returned in the order (px_minx, px_maxy, px_maxx, px_miny)
convert_geo_to_pixel_coords(geo_coords, transform) ==
    LET lo == AffineInverse(transform, <<geo_coords[1], geo_coords[2]>>)
        hi == AffineInverse(transform, <<geo_coords[3], geo_coords[4]>>)
        px_minx == lo[1]
        px_miny == lo[2]
        px_maxx == hi[1]
        px_maxy == hi[2]
    IN  <<px_minx, px_maxy, px_maxx, px_miny>>

\* one line of the text file, from the tuple shp_to_yolo unpacks as
\* px_minx, px_miny, px_maxx, px_maxy; the class id written is the literal 0
YoloLine(px, img_width, img_height) ==
    LET px_minx == px[1]
        px_miny == px[2]
        px_maxx == px[3]
        px_maxy == px[4]
        x_center == RDiv(RAdd(px_minx, px_maxx), I(2))
        y_center == RDiv(RAdd(px_miny, px_maxy), I(2))
        width    == RSub(px_maxx, px_minx)
        height   == RSub(px_maxy, px_miny)
    IN  << 0,
           RDiv(x_center, I(img_width)),
           RDiv(y_center, I(img_height)),
           RDiv(width, I(img_width)),
           RDiv(height, I(img_height)) >>

\* the loop over gdf.iterrows(): one pixel tuple and one line per row
PixelRows(gdf, transform) ==
    [i \in 1..Len(gdf) |-> convert_geo_to_pixel_coords(gdf[i], transform)]

---------------------------------------------------------------------------
(* yolo2shp.py: YOLO lines -> shapefile rows *)

\* shapely's box(minx, miny, maxx, maxy): the rectangle on the four given
\* coordinates, kept as passed
box(x0, y0, x1, y1) == <<x0, y0, x1, y1>>

\* geometry.bounds of such a rectangle
Bounds(g) == <<RMin(g[1], g[3]), RMin(g[2], g[4]),
               RMax(g[1], g[3]), RMax(g[2], g[4])>>

\* the body of the loop over detections.iterrows()
RowGeom(row, transform, src_width, src_height) ==
    LET x_center == row[2]
        y_center == row[3]
        width    == row[4]
        height   == row[5]
        x1 == RMul(RSub(x_center, RDiv(width, I(2))), I(src_width))
        y1 == RMul(RSub(y_center, RDiv(height, I(2))), I(src_height))
        x2 == RMul(RAdd(x_center, RDiv(width, I(2))), I(src_width))
        y2 == RMul(RAdd(y_center, RDiv(height, I(2))), I(src_height))
        top_left     == AffineForward(transform, <<x1, y1>>)
        bottom_right == AffineForward(transform, <<x2, y2>>)
    IN  box(top_left[1], bottom_right[2], bottom_right[1], top_left[2])

\* the loop of detections_to_shp, appending one geometry per row, in order
RECURSIVE GeomsFrom(_, _, _, _, _)
GeomsFrom(detections, k, transform, src_width, src_height) ==
    IF k = 0 THEN <<>>
    ELSE Append(GeomsFrom(detections, k - 1, transform, src_width, src_height),
                RowGeom(detections[k], transform, src_width, src_height))

\* a faulty pairing, for comparison: the geometries are attached in reverse
\* order
GeoDataFrameReversed(geoms, class_ids) ==
    [i \in 1..Len(geoms) |->
        [geometry |-> geoms[Len(geoms) + 1 - i], class_id |-> class_ids[i]]]

\* gpd.GeoDataFrame({'geometry': geoms, 'class_id': detections['class_id']}):
\* the two columns are aligned row by row
GeoDataFrame(geoms, class_ids) ==
    [i \in 1..Len(geoms) |-> [geometry |-> geoms[i], class_id |-> class_ids[i]]]

---------------------------------------------------------------------------
(* convert_tif_to_png: percentile scaling of the first three bands *)

\* the literal -3.40282e+38 of valid_mask, scaled to the model's integers:
\* a threshold below every valid sample
NODATA_THRESHOLD == -1000

\* the nodata value of the rasters (the lowest float32), below the threshold
NoDataSample == NODATA_THRESHOLD - 1

\* the float 0/0
NaN == <<0, 0>>
IsNaN(v) == v[2] = 0

\* float division and multiplication, which do not raise: 0/0 is NaN
FDiv(p, q) == IF IsNaN(p) \/ IsNaN(q) \/ q[1] = 0 THEN NaN ELSE RDiv(p, q)
FMul(p, q) == IF IsNaN(p) \/ IsNaN(q) THEN NaN ELSE RMul(p, q)

\* valid_mask = band > -3.40282e+38
valid_mask(band) == [i \in 1..Len(band) |-> band[i] > NODATA_THRESHOLD]

\* the mask of the variant without masking: every sample takes part
no_mask(band) == [i \in 1..Len(band) |-> TRUE]

\* np.any(valid_mask)
any(mask) == \E i \in 1..Len(mask) : mask[i]

\* band[valid_mask]: the first k samples that the mask keeps, in order
RECURSIVE Select(_, _, _)
Select(band, mask, k) ==
    IF k = 0 THEN <<>>
    ELSE IF mask[k] THEN Append(Select(band, mask, k - 1), band[k])
         ELSE Select(band, mask, k - 1)

RECURSIVE np_sort(_)
np_sort(a) ==
    IF a = <<>> THEN <<>>
    ELSE LET i == CHOOSE j \in 1..Len(a) : \A k \in 1..Len(a) : a[j] <= a[k]
         IN  <<a[i]>> \o np_sort([k \in 1..(Len(a) - 1) |->
                                     IF k < i THEN a[k] ELSE a[k + 1]])

\* np.percentile(a, q) with its default linear interpolation, a non-empty:
\* the value at the virtual index q/100 * (n - 1) of the sorted samples
percentile(a, q) ==
    LET s  == np_sort(a)
        h  == q * (Len(s) - 1)
        lo == h \div 100
        r  == h % 100
    IN  IF r = 0 THEN I(s[lo + 1])
        ELSE RAdd(I(s[lo + 1]), RMul(Rat(r, 100), I(s[lo + 2] - s[lo + 1])))

\* np.clip(v, lo, hi) = minimum(maximum(v, lo), hi)
clip(v, lo, hi) == RMin(RMax(v, lo), hi)

\* (band - p2) / (p98 - p2) * 255 applied to one clipped sample
Scale(v, p2, p98) == FMul(FDiv(RSub(clip(v, p2, p98), p2), RSub(p98, p2)), I(255))

\* faulty percentiles, for comparison: taken over every sample, nodata too
PercentilesOfAll(band, mask) ==
    <<percentile(band, 2), percentile(band, 98)>>

\* p2, p98 = np.percentile(band[valid_mask], (2, 98))
Percentiles(band, mask) ==
    LET valid == Select(band, mask, Len(band))
    IN  <<percentile(valid, 2), percentile(valid, 98)>>

\* one pass of the loop body for a band with a valid sample: clip, scale,
\* then band[~valid_mask] = 0.  src, p2 and p98 are kept beside the data so
\* that the properties can name the band and the percentiles used.
ScaledBand(k, band, mask) ==
    LET p == Percentiles(band, mask)
    IN  [src |-> k, p2 |-> p[1], p98 |-> p[2],
         data |-> [i \in 1..Len(band) |->
                      IF mask[i] THEN Scale(I(band[i]), p[1], p[2]) ELSE I(0)]]

\* the loop "for band in bands" of tif2png.py and tif_to_png_squares.py over
\* the first k bands: a band without a valid sample is skipped (continue)
RECURSIVE MaskedLoop(_, _)
MaskedLoop(bs, k) ==
    IF k = 0 THEN <<>>
    ELSE IF any(valid_mask(bs[k]))
         THEN Append(MaskedLoop(bs, k - 1), ScaledBand(k, bs[k], valid_mask(bs[k])))
         ELSE MaskedLoop(bs, k - 1)

\* the loop of tif_shp_to_yolo_png_converter.py: no mask, no skip
RECURSIVE UnmaskedLoop(_, _)
UnmaskedLoop(bs, k) ==
    IF k = 0 THEN <<>>
    ELSE Append(UnmaskedLoop(bs, k - 1), ScaledBand(k, bs[k], no_mask(bs[k])))

\* what a C cast of a NaN or out-of-range float to uint8 may give
UndefinedCasts == {0, 255}

\* .astype(np.uint8) of one value: truncation inside [0, 256), and for a NaN
\* or a value outside it whatever the platform's cast gives (ub)
astype_uint8(v, ub) ==
    IF IsNaN(v) \/ v[1] < 0 \/ v[1] >= 256 * v[2] THEN ub ELSE v[1] \div v[2]

\* np.dstack(scaled_bands).astype(np.uint8): one channel per scaled band
dstack_uint8(scaled, ub) ==
    [c \in 1..Len(scaled) |->
        [i \in 1..Len(scaled[c].data) |-> astype_uint8(scaled[c].data[i], ub)]]

---------------------------------------------------------------------------
(* Inputs of the conversion scripts *)

SeqsUpTo(S, n) == UNION {[1..k -> S] : k \in 0..n}

Transforms ==
    { [a |-> 1,  b |-> 0,  c |-> 0,   d |-> 0, e |-> 1,  f |-> 0],
      [a |-> 3,  b |-> 0,  c |-> 10,  d |-> 0, e |-> -3, f |-> 100],
      [a |-> -1, b |-> 0,  c |-> 100, d |-> 0, e |-> 1,  f |-> 0],
      [a |-> -2, b |-> 0,  c |-> 100, d |-> 0, e |-> -2, f |-> 100],
      [a |-> 1,  b |-> 1,  c |-> 0,   d |-> 0, e |-> 1,  f |-> 0],
      [a |-> 1,  b |-> -1, c |-> 50,  d |-> 1, e |-> 1,  f |-> 0] }

Sizes == { <<100, 100>>, <<200, 200>>, <<200, 100>> }

Rasters ==
    { [transform |-> T, width |-> s[1], height |-> s[2]] :
        T \in Transforms, s \in Sizes }

GeoCoords == {10, 30, 40}

\* geometry.bounds: minx <= maxx and miny <= maxy; here proper rectangles
GeoBoxes ==
    { <<I(x0), I(y0), I(x1), I(y1)>> :
        x0 \in GeoCoords, y0 \in GeoCoords, x1 \in GeoCoords, y1 \in GeoCoords }
    \ { g \in { <<I(x0), I(y0), I(x1), I(y1)>> :
                  x0 \in GeoCoords, y0 \in GeoCoords,
                  x1 \in GeoCoords, y1 \in GeoCoords } :
          ~(RLt(g[1], g[3]) /\ RLt(g[2], g[4])) }

\* what a detector writes: class ids as it emits them, boxes as fractions
DetectorClassIds == {0, 1, -1}
DetectorBoxes ==
    { <<Rat(1, 2), Rat(1, 2), Rat(1, 5), Rat(1, 5)>>,
      <<Rat(1, 4), Rat(3, 4), Rat(1, 2), Rat(1, 10)>> }
DetectorRecords ==
    { <<c, b[1], b[2], b[3], b[4]>> : c \in DetectorClassIds, b \in DetectorBoxes }

NoFile == <<"absent">>

---------------------------------------------------------------------------
(* Inputs of convert_tif_to_png *)

ValidSamples == {1, 2, 3}
Samples == {NoDataSample} \cup ValidSamples

\* any band of NPix samples
AnyBands == [1..NPix -> Samples]

\* bands whose first j samples are nodata and whose other samples are 1:
\* no nodata, one nodata sample, nodata only
EdgeBands ==
    { [i \in 1..NPix |-> IF i <= j THEN NoDataSample ELSE 1] : j \in {0, 1, NPix} }

\* the three bands read by src.read(i) for i in (1, 2, 3): one of them is any
\* band, the two others are edge bands
RasterBands ==
    { [k \in 1..3 |-> IF k = r THEN x ELSE IF k = ((r % 3) + 1) THEN y ELSE z] :
        r \in 1..3, x \in AnyBands, y \in EdgeBands, z \in EdgeBands }

---------------------------------------------------------------------------
(* Inputs of the batch loops *)

Scripts == {"raster_clipper", "tif2png", "converter", "yolo2shp"}

\* what a unit of each batch can be like
UnitKinds(s) ==
    CASE s = "raster_clipper" -> {"ok", "no_overlap"}
      [] s = "tif2png"        -> {"ok", "unreadable", "band_without_data"}
      [] s = "converter"      -> {"ok", "unreadable", "no_shp"}
      [] s = "yolo2shp"       -> {"ok", "unreadable", "no_tif"}

---------------------------------------------------------------------------
(* raster_clipper: the clip polygons and the companion bounding boxes *)

\* A geometry is an axis-parallel rectangle <<minx, miny, maxx, maxy>>.
\* A coordinate reference system is a number k: the point that has the
\* coordinate x in system 0 has the coordinate x + 100 * k in system k.
to_crs(gdf, from, crs) ==
    [j \in 1..Len(gdf) |->
        [fid |-> gdf[j].fid,
         geometry |-> [n \in 1..4 |-> gdf[j].geometry[n] + 100 * (crs - from)]]]

\* gpd.read_file: the rows of the file under a RangeIndex from 0
read_file(file) ==
    [j \in 1..Len(file.rows) |-> [fid |-> j - 1, geometry |-> file.rows[j]]]

\* reproject_shapefile_to_match_raster
reproject_shapefile_to_match_raster(file, crs) ==
    to_crs(read_file(file), file.crs, crs)

\* shapely's intersects: the two closed sets share a point
intersects(g, h) ==
    /\ g[1] <= h[3] /\ h[1] <= g[3]
    /\ g[2] <= h[4] /\ h[2] <= g[4]

\* a faulty selection that keeps every row, for comparison
every_bbox(gdf, geometry) == gdf

\* bbox_gdf[bbox_gdf.intersects(square.geometry)]: the rows under a True of
\* the boolean mask, in the order of the frame
RECURSIVE intersecting_bboxes(_, _)
intersecting_bboxes(gdf, geometry) ==
    IF gdf = <<>> THEN <<>>
    ELSE LET rest == intersecting_bboxes(Tail(gdf), geometry)
         IN  IF intersects(Head(gdf).geometry, geometry)
             THEN <<Head(gdf)>> \o rest
             ELSE rest

\* the extent of the raster, and rectangles in and out of it, in system 0
RasterExtent == <<0, 0, 10, 10>>
ClipPolygons == { <<0, 0, 4, 4>>, <<4, 0, 8, 4>>, <<20, 20, 24, 24>> }
CompanionBoxes == { <<1, 1, 2, 2>>, <<3, 1, 5, 2>>, <<6, 6, 7, 7>> }
CrsCodes == {0, 1}

\* a shapefile of the rectangles of S, at most n of them, in system crs
Shapefiles(S, n) ==
    { [crs |-> k,
       rows |-> [j \in 1..Len(q) |-> [m \in 1..4 |-> q[j][m] + 100 * k]]] :
        k \in CrsCodes, q \in SeqsUpTo(S, n) }

\* mask(src, [polygon], crop=True) raises when the polygon does not overlap
\* the raster
Overlap(gdf, crs) ==
    [j \in 1..Len(gdf) |->
        IF intersects(gdf[j].geometry,
                      [n \in 1..4 |-> RasterExtent[n] + 100 * crs])
        THEN "ok" ELSE "no_overlap"]

---------------------------------------------------------------------------
(* Each run is of one script; the state of the others stays as it starts *)

CodecIdle ==
    /\ tif = [transform |-> [a |-> 1, b |-> 0, c |-> 0, d |-> 0, e |-> 1, f |-> 0],
              width |-> 1, height |-> 1]
    /\ shp = <<>>
    /\ pxBoxes = <<>>
    /\ txt = NoFile
    /\ origin = "none"
    /\ outShp = NoFile

NormIdle ==
    /\ bands = <<>>
    /\ masking = FALSE
    /\ scaled_bands = <<>>
    /\ png = NoFile
    /\ result = "none"

ClipIdle ==
    /\ raster_crs = 0
    /\ squares_shp = [crs |-> 0, rows |-> <<>>]
    /\ bbox_shp = [crs |-> 0, rows |-> <<>>]
    /\ squares_gdf = <<>>
    /\ bbox_gdf = <<>>
    /\ shp_files = <<>>

BatchIdle ==
    /\ script = "none"
    /\ units = <<>>
    /\ idx = 0
    /\ written = <<>>
    /\ reported = {}
    /\ status = "none"
    /\ ClipIdle

TileIdle ==
    /\ image = [width |-> 0, height |-> 0]
    /\ square_size = 0
    /\ tile_y = 0
    /\ tile_x = 0
    /\ squares = <<>>

---------------------------------------------------------------------------
(* The conversion scripts as a state machine *)

InitCodec ==
    /\ prog = "codec"
    /\ pc = "start"
    /\ tif \in Rasters
    /\ shp = <<>>
    /\ pxBoxes = <<>>
    /\ txt = NoFile
    /\ origin = "none"
    /\ outShp = NoFile
    /\ NormIdle
    /\ BatchIdle
    /\ TileIdle

\* tif_shp_to_yolo_png_converter.shp_to_yolo(tif_path, shp_path, yolo_path)
shp_to_yolo ==
    /\ prog = "codec"
    /\ pc = "start"
    /\ \E gdf \in SeqsUpTo(GeoBoxes, MaxFeatures) :
         LET rows == PixelRows(gdf, tif.transform)
         IN  /\ shp' = gdf
             /\ pxBoxes' = rows
             /\ txt' = [i \in 1..Len(gdf) |->
                           YoloLine(rows[i], tif.width, tif.height)]
    /\ origin' = "shp_to_yolo"
    /\ pc' = "labelled"
    /\ UNCHANGED <<prog, tif, outShp>>
    /\ UNCHANGED <<normVars, batchVars, tileVars>>

\* the detector, outside the repository, writes the detections file
Detector ==
    /\ prog = "codec"
    /\ pc = "start"
    /\ txt' \in SeqsUpTo(DetectorRecords, MaxRecords)
    /\ origin' = "detector"
    /\ pc' = "labelled"
    /\ UNCHANGED <<prog, tif, shp, pxBoxes, outShp>>
    /\ UNCHANGED <<normVars, batchVars, tileVars>>

\* yolo2shp.detections_to_shp(tif_path, detections_path, output_path)
detections_to_shp ==
    /\ prog = "codec"
    /\ pc = "labelled"
    /\ LET detections == txt
           geoms == GeomsFrom(detections, Len(detections),
                              tif.transform, tif.width, tif.height)
           class_ids == [i \in 1..Len(detections) |-> detections[i][1]]
       IN  outShp' = GeoDataFrame(geoms, class_ids)
    /\ pc' = "done"
    /\ UNCHANGED <<prog, tif, shp, pxBoxes, txt, origin>>
    /\ UNCHANGED <<normVars, batchVars, tileVars>>

NextCodec == shp_to_yolo \/ Detector \/ detections_to_shp

SpecCodec == InitCodec /\ [][NextCodec]_vars

---------------------------------------------------------------------------
(* convert_tif_to_png as a state machine *)

InitNorm ==
    /\ prog = "norm"
    /\ pc = "start"
    /\ bands \in RasterBands
    /\ masking = FALSE
    /\ scaled_bands = <<>>
    /\ png = NoFile
    /\ result = "none"
    /\ CodecIdle
    /\ BatchIdle
    /\ TileIdle

\* "if scaled_bands:" and what follows it.  Image.fromarray(array, 'RGB')
\* takes an array of three channels; given one or two it raises ValueError
\* (not enough image data) and nothing is saved.
StackAndSave(scaled) ==
    IF scaled = <<>>
    THEN png' = NoFile /\ result' = "nothing_saved"
    ELSE \E ub \in UndefinedCasts :
            LET array == dstack_uint8(scaled, ub)
            IN  IF Len(array) = 3
                THEN png' = array /\ result' = "saved"
                ELSE png' = NoFile /\ result' = "ValueError"

\* the body shared, line for line, by tif2png.convert_tif_to_png and
\* tif_to_png_squares.convert_tif_to_png
MaskedConvert ==
    /\ masking' = TRUE
    /\ scaled_bands' = MaskedLoop(bands, 3)
    /\ StackAndSave(scaled_bands')
    /\ pc' = "done"
    /\ UNCHANGED <<prog, bands>>
    /\ UNCHANGED <<codecVars, batchVars, tileVars>>

\* tif2png.convert_tif_to_png(tif_path, png_path)
tif2png_convert_tif_to_png ==
    /\ prog = "norm"
    /\ pc = "start"
    /\ MaskedConvert

\* tif_to_png_squares.convert_tif_to_png(tif_path, png_path)
squares_convert_tif_to_png ==
    /\ prog = "norm"
    /\ pc = "start"
    /\ MaskedConvert

\* tif_shp_to_yolo_png_converter.convert_tif_to_png(tif_path, png_path)
converter_convert_tif_to_png ==
    /\ prog = "norm"
    /\ pc = "start"
    /\ masking' = FALSE
    /\ scaled_bands' = UnmaskedLoop(bands, 3)
    /\ StackAndSave(scaled_bands')
    /\ pc' = "done"
    /\ UNCHANGED <<prog, bands>>
    /\ UNCHANGED <<codecVars, batchVars, tileVars>>

NextNorm ==
    \/ tif2png_convert_tif_to_png
    \/ squares_convert_tif_to_png
    \/ converter_convert_tif_to_png

SpecNorm == InitNorm /\ [][NextNorm]_vars

---------------------------------------------------------------------------
(* The batch loops as a state machine: one action is one pass of a loop body *)

\* raster_clipper.main before its loop: the raster's CRS is read, the two
\* shapefiles are read and reprojected to it; the units of the loop are the
\* rows of squares_gdf
InitClip ==
    /\ raster_crs \in CrsCodes
    /\ squares_shp \in Shapefiles(ClipPolygons, MaxUnits)
    /\ bbox_shp \in Shapefiles(CompanionBoxes, MaxBoxes)
    /\ squares_gdf = reproject_shapefile_to_match_raster(squares_shp, raster_crs)
    /\ bbox_gdf = reproject_shapefile_to_match_raster(bbox_shp, raster_crs)
    /\ shp_files = <<>>
    /\ units = Overlap(squares_gdf, raster_crs)

InitBatch ==
    /\ prog = "batch"
    /\ pc = "loop"
    /\ script \in Scripts
    /\ IF script = "raster_clipper"
       THEN InitClip
       ELSE /\ units \in SeqsUpTo(UnitKinds(script), MaxUnits)
            /\ ClipIdle
    /\ idx = 0
    /\ written = <<>>
    /\ reported = {}
    /\ status = IF units = <<>> THEN "finished" ELSE "running"
    /\ CodecIdle
    /\ NormIdle
    /\ TileIdle

\* the loop goes on to the next unit, or ends after the last one
Continue ==
    /\ idx' = idx + 1
    /\ status' = IF idx + 1 = Len(units) THEN "finished" ELSE "running"

\* an exception leaves the loop body and, no handler being anywhere in the
\* script, the script
Raise ==
    /\ idx' = idx + 1
    /\ status' = "aborted"

Looping(s) ==
    /\ prog = "batch"
    /\ script = s
    /\ status = "running"
    /\ idx < Len(units)

\* raster_clipper.main, one pass over squares_gdf.iterrows(): the index is
\* that of the row, from 0.  mask() raises on a polygon that does not overlap
\* the raster; clip_raster_with_polygon prints the error and raises it again.
\* square_{index}.tif is written by clip_raster_with_polygon, then the rows
\* of bbox_gdf that intersect the polygon go to square_{index}.shp.  to_file
\* of a frame without rows depends on the geopandas installed: it writes a
\* file without features, or raises ValueError.
raster_clipper_main ==
    /\ Looping("raster_clipper")
    /\ LET square == squares_gdf[idx + 1]
           index == square.fid
           rows == intersecting_bboxes(bbox_gdf, square.geometry)
       IN  IF units[idx + 1] = "no_overlap"
           THEN /\ reported' = reported \cup {index}
                /\ Raise
                /\ UNCHANGED <<written, shp_files>>
           ELSE \E saved \in IF rows = <<>> THEN BOOLEAN ELSE {TRUE} :
                  IF saved
                  THEN /\ written' = written \o << <<index, "tif">>, <<index, "shp">> >>
                       /\ shp_files' = Append(shp_files, <<index, rows>>)
                       /\ Continue
                       /\ UNCHANGED reported
                  ELSE /\ written' = Append(written, <<index, "tif">>)
                       /\ Raise
                       /\ UNCHANGED <<reported, shp_files>>
    /\ UNCHANGED <<prog, pc, script, units>>
    /\ UNCHANGED <<raster_crs, squares_shp, bbox_shp, squares_gdf, bbox_gdf>>
    /\ UNCHANGED <<codecVars, normVars, tileVars>>

\* tif2png.main, one pass over tif_files: rasterio.open raises on a file it
\* cannot read, Image.fromarray on one or two scaled bands
tif2png_main ==
    /\ Looping("tif2png")
    /\ IF units[idx + 1] \in {"unreadable", "band_without_data"}
       THEN /\ Raise
            /\ UNCHANGED written
       ELSE /\ written' = Append(written, <<idx, "png">>)
            /\ Continue
    /\ UNCHANGED <<prog, pc, script, units, reported>>
    /\ UNCHANGED <<codecVars, normVars, clipVars, tileVars>>

\* tif_shp_to_yolo_png_converter.main, one pass over os.listdir(tif_dir):
\* convert_tif_to_png runs before shp_to_yolo, whose gpd.read_file raises
\* when the companion shapefile is missing
converter_main ==
    /\ Looping("converter")
    /\ CASE units[idx + 1] = "unreadable" ->
              /\ Raise
              /\ UNCHANGED written
         [] units[idx + 1] = "no_shp" ->
              /\ written' = Append(written, <<idx, "png">>)
              /\ Raise
         [] OTHER ->
              /\ written' = written \o << <<idx, "png">>, <<idx, "txt">> >>
              /\ Continue
    /\ UNCHANGED <<prog, pc, script, units, reported>>
    /\ UNCHANGED <<codecVars, normVars, clipVars, tileVars>>

\* yolo2shp.process_directory, one pass over os.listdir(detections_dir): a
\* detection file without its TIFF is warned about and passed over; any
\* exception of detections_to_shp leaves the loop
process_directory ==
    /\ Looping("yolo2shp")
    /\ CASE units[idx + 1] = "no_tif" ->
              /\ reported' = reported \cup {idx}
              /\ Continue
              /\ UNCHANGED written
         [] units[idx + 1] = "unreadable" ->
              /\ Raise
              /\ UNCHANGED <<written, reported>>
         [] OTHER ->
              /\ written' = Append(written, <<idx, "shp">>)
              /\ Continue
              /\ UNCHANGED reported
    /\ UNCHANGED <<prog, pc, script, units>>
    /\ UNCHANGED <<codecVars, normVars, clipVars, tileVars>>

NextBatch ==
    \/ raster_clipper_main
    \/ tif2png_main
    \/ converter_main
    \/ process_directory

SpecBatch == InitBatch /\ [][NextBatch]_vars

---------------------------------------------------------------------------
(* tif_to_png_squares: the PNG is cut into tiles *)

\* a faulty count that rounds up, for comparison
num_cols_up(width, size) == (width + size - 1) \div size

num_rows(height, size) == height \div size
num_cols(width, size) == width \div size

\* the box given to image.crop: (left, upper, right, lower)
crop_box(x, y, size) == <<x * size, y * size, (x + 1) * size, (y + 1) * size>>

\* split_png_to_squares after Image.open: the size of the image is known,
\* square_size is the positive int of the command line
InitTiles ==
    /\ prog = "tiles"
    /\ pc = "split"
    /\ image \in [width : 1..MaxSide, height : 1..MaxSide]
    /\ square_size \in 1..MaxSquare
    /\ tile_y = 0
    /\ tile_x = 0
    /\ squares = <<>>
    /\ CodecIdle
    /\ NormIdle
    /\ BatchIdle

\* one pass of the inner loop: tile (y, x) is cropped and saved as
\* square_{y}_{x}.png, named here <<y, x>>; the loops end when range(num_rows)
\* or range(num_cols) has nothing left
split_png_to_squares ==
    /\ prog = "tiles"
    /\ pc = "split"
    /\ LET rows == num_rows(image.height, square_size)
           cols == num_cols(image.width, square_size)
       IN  IF tile_y < rows /\ tile_x < cols
           THEN /\ squares' = Append(squares,
                                     [name |-> <<tile_y, tile_x>>,
                                      box |-> crop_box(tile_x, tile_y, square_size)])
                /\ IF tile_x + 1 < cols
                   THEN tile_x' = tile_x + 1 /\ UNCHANGED tile_y
                   ELSE tile_x' = 0 /\ tile_y' = tile_y + 1
                /\ UNCHANGED pc
           ELSE /\ pc' = "done"
                /\ UNCHANGED <<tile_y, tile_x, squares>>
    /\ UNCHANGED <<prog, image, square_size>>
    /\ UNCHANGED <<codecVars, normVars, batchVars>>

NextTiles == split_png_to_squares

SpecTiles == InitTiles /\ [][NextTiles]_vars

---------------------------------------------------------------------------
(* A run of any one of the scripts *)

Init == InitCodec \/ InitNorm \/ InitBatch \/ InitTiles

Next == NextCodec \/ NextNorm \/ NextBatch \/ NextTiles

Spec == Init /\ [][Next]_vars

---------------------------------------------------------------------------
(* Properties of the conversion scripts *)

RotationFree(T) == T.b = 0 /\ T.d = 0

\* the pixel-space bounding box of a geographic box: min/max over the images
\* of all four corners under ~transform
FourCornerPixelBox(g, T) ==
    LET c1 == AffineInverse(T, <<g[1], g[2]>>)
        c2 == AffineInverse(T, <<g[1], g[4]>>)
        c3 == AffineInverse(T, <<g[3], g[2]>>)
        c4 == AffineInverse(T, <<g[3], g[4]>>)
    IN  << RMin4(c1[1], c2[1], c3[1], c4[1]), RMin4(c1[2], c2[2], c3[2], c4[2]),
           RMax4(c1[1], c2[1], c3[1], c4[1]), RMax4(c1[2], c2[2], c3[2], c4[2]) >>

\* the geographic bounding box of an annotation: min/max over the images of
\* all four corners of its pixel box under transform
FourCornerGeoBox(row, T, W, H) ==
    LET x1 == RMul(RSub(row[2], RDiv(row[4], I(2))), I(W))
        y1 == RMul(RSub(row[3], RDiv(row[5], I(2))), I(H))
        x2 == RMul(RAdd(row[2], RDiv(row[4], I(2))), I(W))
        y2 == RMul(RAdd(row[3], RDiv(row[5], I(2))), I(H))
        c1 == AffineForward(T, <<x1, y1>>)
        c2 == AffineForward(T, <<x1, y2>>)
        c3 == AffineForward(T, <<x2, y1>>)
        c4 == AffineForward(T, <<x2, y2>>)
    IN  << RMin4(c1[1], c2[1], c3[1], c4[1]), RMin4(c1[2], c2[2], c3[2], c4[2]),
           RMax4(c1[1], c2[1], c3[1], c4[1]), RMax4(c1[2], c2[2], c3[2], c4[2]) >>

\* a geographic box lies inside the raster's extent, the image under
\* transform of the pixel rectangle [0, width] x [0, height] (a rectangle
\* when the transform is rotation-free)
InsideExtent(g, r) ==
    LET whole  == <<0, Rat(1, 2), Rat(1, 2), I(1), I(1)>>
        extent == FourCornerGeoBox(whole, r.transform, r.width, r.height)
    IN  /\ RLe(extent[1], g[1]) /\ RLe(g[3], extent[3])
        /\ RLe(extent[2], g[2]) /\ RLe(g[4], extent[4])

Labelled == prog = "codec" /\ origin = "shp_to_yolo" /\ pc \in {"labelled", "done"}
Converted == prog = "codec" /\ pc = "done"

\* C1: for every invertible transform, rotated or skewed ones included, the
\* pixel box shp_to_yolo builds an annotation from is the min/max over the
\* images of all four corners of the geographic box under ~transform.
C1_FourCornerPixelBox ==
    Labelled =>
        \A i \in 1..Len(shp) :
            pxBoxes[i] = FourCornerPixelBox(shp[i], tif.transform)

\* C2: for a rotation-free transform (either sign of a and e) and a box inside
\* the raster, shp_to_yolo followed by detections_to_shp gives back a box with
\* the bounds of the original, row by row.
C2_RoundTrip ==
    (Converted /\ origin = "shp_to_yolo" /\ RotationFree(tif.transform)) =>
        /\ Len(outShp) = Len(shp)
        /\ \A i \in 1..Len(shp) :
              InsideExtent(shp[i], tif) => Bounds(outShp[i].geometry) = shp[i]

C2_Witness ==
    /\ Converted /\ origin = "shp_to_yolo"
    /\ RotationFree(tif.transform) /\ tif.transform.a < 0 /\ tif.transform.e > 0
    /\ Len(shp) = 2 /\ shp[1] # shp[2]
    /\ \A i \in 1..2 : InsideExtent(shp[i], tif)
    /\ Bounds(outShp[2].geometry) = shp[2]

\* C3: on the 100x100 raster with transform (1,0,0,0,1,0) the box
\* [10,10]-[30,40] is written as (0, 0.20, 0.25, 0.20, 0.30); for every
\* rotation-free transform the written width and height are the non-negative
\* pixel extents of the box divided by the image width and height.
C3_NormalizedExtents ==
    (Labelled /\ RotationFree(tif.transform)) =>
        \A i \in 1..Len(shp) :
            LET px == FourCornerPixelBox(shp[i], tif.transform)
            IN  /\ txt[i][4] = RDiv(RSub(px[3], px[1]), I(tif.width))
                /\ txt[i][5] = RDiv(RSub(px[4], px[2]), I(tif.height))
                /\ RLe(I(0), txt[i][4]) /\ RLe(I(0), txt[i][5])
                /\ ( /\ tif = [transform |-> [a |-> 1, b |-> 0, c |-> 0,
                                              d |-> 0, e |-> 1, f |-> 0],
                               width |-> 100, height |-> 100]
                     /\ shp[i] = <<I(10), I(10), I(30), I(40)>> )
                   => txt[i] = <<0, Rat(1, 5), Rat(1, 4), Rat(1, 5), Rat(3, 10)>>

\* C4: for every invertible transform, rotated or skewed ones included, the
\* geographic box detections_to_shp produces for a record is the min/max over
\* the images under transform of all four corners of the record's pixel box.
C4_FourCornerGeoBox ==
    Converted =>
        \A i \in 1..Len(txt) :
            Bounds(outShp[i].geometry) =
                FourCornerGeoBox(txt[i], tif.transform, tif.width, tif.height)

\* C8: a detection record with a negative class id is rejected: no row of the
\* output carries a class id below 0.
C8_NegativeClassRejected ==
    Converted => \A i \in 1..Len(outShp) : outShp[i].class_id >= 0

\* C10: detections_to_shp is order-preserving and 1:1: n records give n rows,
\* and row i holds the box computed from record i and record i's class id.
C10_OrderPreserving ==
    Converted =>
        /\ Len(outShp) = Len(txt)
        /\ \A i \in 1..Len(txt) :
              /\ outShp[i].class_id = txt[i][1]
              /\ outShp[i].geometry =
                     RowGeom(txt[i], tif.transform, tif.width, tif.height)

C10_Witness ==
    /\ Converted /\ origin = "detector"
    /\ Len(txt) = 2 /\ Len(outShp) = 2
    /\ txt[1][1] # txt[2][1]
    /\ outShp[1].geometry # outShp[2].geometry

---------------------------------------------------------------------------
(* Properties of convert_tif_to_png *)

NormDone == prog = "norm" /\ pc = "done"

\* the samples of a band that the variant run takes as valid
ValidAt(band) == IF masking THEN valid_mask(band) ELSE no_mask(band)

MinOf(a) == CHOOSE x \in {a[i] : i \in 1..Len(a)} : \A i \in 1..Len(a) : x <= a[i]
MaxOf(a) == CHOOSE x \in {a[i] : i \in 1..Len(a)} : \A i \in 1..Len(a) : a[i] <= x

\* a band of the masking variants with a sample of each kind
Mixed(band) ==
    /\ \E i \in 1..NPix : band[i] > NODATA_THRESHOLD
    /\ \E i \in 1..NPix : ~(band[i] > NODATA_THRESHOLD)

\* C5 as stated: in a band with valid and nodata samples the 8-bit output is 0
\* at exactly the nodata positions and every valid position is in [0,255].
\* Stated here for the bands whose valid samples are not all equal (p2 < p98),
\* where the scaling is defined.
C5_ZeroExactlyAtNodata ==
    (NormDone /\ masking /\ result = "saved") =>
        \A c \in 1..3 :
            (Mixed(bands[c]) /\ RLt(scaled_bands[c].p2, scaled_bands[c].p98)) =>
                \A i \in 1..NPix :
                    /\ (png[c][i] = 0) <=> ~(bands[c][i] > NODATA_THRESHOLD)
                    /\ png[c][i] \in 0..255

\* C5 as amended: in a band with valid and nodata samples the 8-bit output is
\* 0 at every nodata position (a valid sample at or below p2 is 0 as well),
\* every valid position is in [0,255], and p2 and p98 are the percentiles of
\* the valid samples alone, so they lie between the least and the greatest
\* valid sample.
C5_NodataIsZero ==
    (NormDone /\ masking /\ result = "saved") =>
        \A c \in 1..3 :
            Mixed(bands[c]) =>
                LET valid == Select(bands[c], valid_mask(bands[c]), NPix)
                IN  /\ \A i \in 1..NPix :
                          /\ ~(bands[c][i] > NODATA_THRESHOLD) => png[c][i] = 0
                          /\ png[c][i] \in 0..255
                    /\ scaled_bands[c].src = c
                    /\ scaled_bands[c].p2 = percentile(valid, 2)
                    /\ scaled_bands[c].p98 = percentile(valid, 98)
                    /\ RLe(I(MinOf(valid)), scaled_bands[c].p2)
                    /\ RLe(scaled_bands[c].p2, scaled_bands[c].p98)
                    /\ RLe(scaled_bands[c].p98, I(MaxOf(valid)))

C5_Witness ==
    /\ NormDone /\ masking /\ result = "saved"
    /\ \E c \in 1..3 :
          /\ Mixed(bands[c])
          /\ RLt(scaled_bands[c].p2, scaled_bands[c].p98)
          /\ \E i, j, k \in 1..NPix :
                /\ ~(bands[c][i] > NODATA_THRESHOLD) /\ png[c][i] = 0
                /\ bands[c][j] > NODATA_THRESHOLD /\ png[c][j] = 0
                /\ bands[c][k] > NODATA_THRESHOLD /\ png[c][k] \in 1..254

\* C6: for a band whose valid samples are all equal the scaling divides by
\* nothing that is zero (no NaN comes out of it) and every valid sample's
\* scaled value is one mid-gray constant, in each of the three variants.
C6_ConstantBandMidGray ==
    NormDone =>
        \A c \in 1..Len(scaled_bands) :
            LET band == bands[scaled_bands[c].src]
                mask == ValidAt(band)
                valid == Select(band, mask, NPix)
            IN  (\A i, j \in 1..Len(valid) : valid[i] = valid[j]) =>
                    /\ RSub(scaled_bands[c].p98, scaled_bands[c].p2) # I(0)
                       \/ \A i \in 1..NPix : ~IsNaN(scaled_bands[c].data[i])
                    /\ \A i \in 1..NPix :
                          mask[i] =>
                              /\ ~IsNaN(scaled_bands[c].data[i])
                              /\ RLe(I(127), scaled_bands[c].data[i])
                              /\ RLe(scaled_bands[c].data[i], I(128))

\* the bands with a valid sample
Usable == {k \in 1..3 : any(valid_mask(bands[k]))}

\* C7: an image that is written has exactly the three scaled input bands as
\* its channels, in input order; when one or two of the bands have no valid
\* sample the conversion signals InsufficientDataError and writes nothing.
C7_ThreeBandsOrError ==
    NormDone =>
        /\ result = "saved" =>
              /\ Len(png) = 3
              /\ \A c \in 1..3 : scaled_bands[c].src = c
        /\ (masking /\ Cardinality(Usable) \in {1, 2}) =>
              /\ result = "InsufficientDataError"
              /\ png = NoFile

---------------------------------------------------------------------------
(* Properties of the batch loops *)

\* C9: a unit that fails does not end the batch: when a loop has stopped,
\* every unit of the batch has been taken by it.
C9_BatchIsolation ==
    (prog = "batch" /\ status # "running") => idx = Len(units)

\* the rows of the companion boxes, in the raster's system, that share a
\* point with clip polygon number i
Companions == to_crs(read_file(bbox_shp), bbox_shp.crs, raster_crs)
PolygonOf(i) == to_crs(read_file(squares_shp), squares_shp.crs, raster_crs)[i + 1].geometry
Touching(i) ==
    {j \in 1..Len(Companions) : intersects(Companions[j].geometry, PolygonOf(i))}

\* the n-th of the rows of Touching(i), counted in the order of the file
NthTouching(i, n) ==
    CHOOSE j \in Touching(i) : Cardinality({m \in Touching(i) : m < j}) = n - 1

Clipping == prog = "batch" /\ script = "raster_clipper"

\* C11: at every point of the loop of raster_clipper.main, a square_i.shp has
\* been written only after the square_i.tif of the same index, and its
\* features are exactly the reprojected companion boxes that intersect
\* polygon i, in the order they have in the companion file
C11_ClipPairing ==
    Clipping =>
        /\ \A k \in 1..Len(written) :
              written[k][2] = "shp" =>
                  \E j \in 1..(k - 1) : written[j] = <<written[k][1], "tif">>
        /\ \A i \in 0..(Len(squares_shp.rows) - 1) :
              Cardinality({k \in 1..Len(written) : written[k] = <<i, "shp">>})
                  = Cardinality({k \in 1..Len(shp_files) : shp_files[k][1] = i})
        /\ \A k \in 1..Len(shp_files) :
              LET i == shp_files[k][1]
                  rows == shp_files[k][2]
              IN  /\ i \in 0..(Len(squares_shp.rows) - 1)
                  /\ Len(rows) = Cardinality(Touching(i))
                  /\ \A n \in 1..Len(rows) : rows[n] = Companions[NthTouching(i, n)]

\* two polygons are done; the file of one has two boxes, the file of the
\* other has left a box out; the boxes were read in another system than the
\* raster's
C11_Witness ==
    /\ Clipping
    /\ bbox_shp.crs # raster_crs
    /\ \E k \in 1..Len(shp_files) : Len(shp_files[k][2]) >= 2
    /\ \E k \in 1..Len(shp_files) :
          /\ Len(shp_files[k][2]) = 1
          /\ Len(shp_files[k][2]) < Len(bbox_gdf)

---------------------------------------------------------------------------
(* Properties of the tiling *)

\* floor(n / size) for n >= 0 and size >= 1
Floor(n, size) == CHOOSE q \in 0..n : q * size <= n /\ n < (q + 1) * size

\* pixel (px, py) is in the window of tile t: right and lower are excluded
Covers(t, px, py) ==
    /\ t.box[1] <= px /\ px < t.box[3]
    /\ t.box[2] <= py /\ py < t.box[4]

CoveringTiles(px, py) == {k \in 1..Len(squares) : Covers(squares[k], px, py)}

\* C12: split_png_to_squares writes exactly floor(H/s) * floor(W/s) tiles,
\* named square_{y}_{x} for 0 <= y < floor(H/s) and 0 <= x < floor(W/s); tile
\* (y, x) is the window [x*s, (x+1)*s) x [y*s, (y+1)*s); every tile is s x s
\* and inside the image, no two tiles share a pixel, and no tile has a pixel
\* of the last W mod s columns or H mod s rows
C12_Tiling ==
    prog = "tiles" =>
        LET W == image.width
            H == image.height
            s == square_size
        IN  /\ \A k \in 1..Len(squares) :
                  LET t == squares[k]
                      y == t.name[1]
                      x == t.name[2]
                  IN  /\ 0 <= y /\ y < Floor(H, s)
                      /\ 0 <= x /\ x < Floor(W, s)
                      /\ t.box = <<x * s, y * s, (x + 1) * s, (y + 1) * s>>
                      /\ t.box[3] - t.box[1] = s
                      /\ t.box[4] - t.box[2] = s
                      /\ 0 <= t.box[1] /\ t.box[3] <= W
                      /\ 0 <= t.box[2] /\ t.box[4] <= H
            /\ \A px \in 0..(W - 1), py \in 0..(H - 1) :
                  /\ Cardinality(CoveringTiles(px, py)) <= 1
                  /\ (px >= W - (W % s) \/ py >= H - (H % s))
                        => CoveringTiles(px, py) = {}
            /\ pc = "done" =>
                  /\ Len(squares) = Floor(H, s) * Floor(W, s)
                  /\ {squares[k].name : k \in 1..Len(squares)}
                        = (0..(Floor(H, s) - 1)) \X (0..(Floor(W, s) - 1))
                  /\ \A px \in 0..(W - (W % s) - 1), py \in 0..(H - (H % s) - 1) :
                        Cardinality(CoveringTiles(px, py)) = 1

\* the function has returned with two rows and two columns of tiles and a
\* strip left over on the right and at the bottom
C12_Witness ==
    /\ prog = "tiles"
    /\ pc = "done"
    /\ image.width % square_size # 0
    /\ image.height % square_size # 0
    /\ \E k \in 1..Len(squares) : squares[k].name = <<1, 1>>

============================================================================
